---- MODULE Spec2Model ----
(***************************************************************************)
(* Model of metrics_mcp_server.py: four read-only query tools over a       *)
(* relational store (service_metrics, event_logs, hop_trace), each opening *)
(* its own connection, running one SQL statement and reshaping the rows.   *)
(*                                                                         *)
(* Text values (str) are sequences of one-character strings, so that       *)
(* substring search, ILIKE wildcards, ordering and emptiness are computed. *)
(* Optional[str] is [some |-> FALSE] (None) or [some |-> TRUE, v |-> s].   *)
(* A float is a reduced fraction [num, den].                               *)
(* Record constructors name their fields in the order of the fields' first *)
(* mention in this module.                                                 *)
(***************************************************************************)
EXTENDS Integers, Sequences, FiniteSets, Bags, TLC

VARIABLES
    service_metrics,  \* bag of rows of table service_metrics
    event_logs,       \* bag of rows of table event_logs
    hop_trace,        \* bag of rows of table hop_trace
    conns,            \* ids of the connections that are open on the store
    leaked,           \* connections left open by a call that raised, still open
    procs             \* the tool calls in progress, one record per runtime worker

vars == <<service_metrics, event_logs, hop_trace, conns, leaked, procs>>

store == <<service_metrics, event_logs, hop_trace>>

----------------------------------------------------------------------------
\* Bounds of the model.

MaxRows == 2      \* rows in service_metrics and in event_logs
MaxHopRows == 3   \* rows in hop_trace
MaxTs == 1        \* timestamps are 0..MaxTs; NOW() is MaxTs
MaxLimit == 2     \* limit arguments are -1..MaxLimit
MaxKeyLen == 1    \* keywords have at most this many characters
MaxConns == 2     \* connections the store accepts at once (max_connections)
NProcs == 2       \* workers of the runtime, one tool call each

----------------------------------------------------------------------------
\* Values.

None == [some |-> FALSE]
Some(s) == [some |-> TRUE, v |-> s]

\* Python truthiness of an Optional[str]: None and "" are falsy.
Truthy(o) == o.some /\ o.v # << >>

Timestamps == 0 .. MaxTs

\* NOW() at the time of the query.
Now == MaxTs

RECURSIVE GCD(_, _)
GCD(a, b) == IF b = 0 THEN a ELSE GCD(b, a % b)

\* x::float / float(x): the rational n/d, reduced.
Float(n, d) == LET g == GCD(n, d) IN [num |-> n \div g, den |-> d \div g]

\* The literal 0.0.
ZeroFloat == Float(0, 1)

\* Code points, for the ordering of text.
CodePoint(c) ==
    CASE c = "%" -> 37
      [] c = "0" -> 48
      [] c = "1" -> 49
      [] c = "2" -> 50
      [] c = "3" -> 51
      [] c = "4" -> 52
      [] c = "5" -> 53
      [] c = "6" -> 54
      [] c = "7" -> 55
      [] c = "8" -> 56
      [] c = "9" -> 57
      [] c = "<" -> 60
      [] c = ">" -> 62
      [] c = "A" -> 65
      [] c = "B" -> 66
      [] c = "\\" -> 92
      [] c = "_" -> 95
      [] c = "a" -> 97
      [] c = "b" -> 98
      [] c = "c" -> 99
      [] c = "l" -> 108

\* s < t for text, character by character (ORDER BY on a text column).
RECURSIVE StrLess(_, _)
StrLess(s, t) ==
    IF t = << >> THEN FALSE
    ELSE IF s = << >> THEN TRUE
    ELSE IF Head(s) = Head(t) THEN StrLess(Tail(s), Tail(t))
    ELSE CodePoint(Head(s)) < CodePoint(Head(t))

\* datetime.isoformat(): a fixed-width, zero-padded rendering of the instant.
DigitChar(d) == <<"0", "1", "2", "3", "4", "5", "6", "7", "8", "9">>[d + 1]
isoformat(t) == <<DigitChar((t \div 10) % 10), DigitChar(t % 10)>>

\* All sequences over S of length at most n.
RECURSIVE SeqsUpTo(_, _)
SeqsUpTo(S, n) ==
    IF n = 0 THEN {<< >>}
    ELSE LET shorter == SeqsUpTo(S, n - 1)
         IN  shorter \cup {Append(s, c) : s \in shorter, c \in S}

----------------------------------------------------------------------------
\* Bags of rows, and what ORDER BY ... LIMIT makes of them.

BagFilter(B, P(_)) == [r \in {x \in DOMAIN B : P(x)} |-> B[r]]

BagAdd(B, r) == B (+) SetToBag({r})

\* Every listing of the rows of bag B, each row as often as B holds it.
Listings(B) ==
    LET n == BagCardinality(B)
    IN  {s \in [1 .. n -> DOMAIN B] :
            \A r \in DOMAIN B : Cardinality({i \in 1 .. n : s[i] = r}) = B[r]}

\* ORDER BY: the listings in which no row comes after one it precedes. Rows that
\* tie under Before(_, _) come in an order the store is free to choose.
OrderBy(B, Before(_, _)) ==
    {s \in Listings(B) :
        \A i, j \in 1 .. Len(s) : i < j => ~Before(s[j], s[i])}

\* LIMIT n of a listing (n >= 0).
Limit(s, n) == SubSeq(s, 1, IF n < Len(s) THEN n ELSE Len(s))

\* A list comprehension [f(r) for r in rows].
Project(rows, f(_)) == [i \in 1 .. Len(rows) |-> f(rows[i])]

RECURSIVE SumSeq(_)
SumSeq(s) == IF s = << >> THEN 0 ELSE Head(s) + SumSeq(Tail(s))

\* SUM(f) over the rows of bag B.
SumOver(B, f(_)) == SumSeq(Project(CHOOSE s \in Listings(B) : TRUE, f))

MaxOver(S, f(_)) == CHOOSE m \in {f(r) : r \in S} : \A r \in S : f(r) <= m

----------------------------------------------------------------------------
\* Connections.

\* Mutation: one shared connection is handed to every caller.
get_conn_Shared == IF conns = {} THEN 1 ELSE CHOOSE c \in conns : TRUE

\* psycopg2.connect succeeds while the store has a free connection slot.
CanConnect == Cardinality(conns) < MaxConns

\* get_conn(): a new connection, distinct from every open one.
get_conn == CHOOSE c \in 1 .. MaxConns + 1 : c \notin conns /\ \A d \in 1 .. c - 1 : d \in conns

\* Mutation: the connection is released on the error path too (try/finally).
ConnsAfterRaise_Released(c) == conns \ {c}

\* The open connections once a call that had opened c raised: nothing on the
\* way out of the tool closes c (no try/finally around lines 92-95), and no
\* later statement of the program does.
ConnsAfterRaise(c) == conns \cup {c}

\* The open connections once the object of connection c has been deallocated:
\* conn is a local of the tool (line 67) that only the frame of the call that
\* raised keeps alive, and the driver closes a connection whose object goes
\* away. Whether and when that happens is the runtime's choice, not the
\* program's.
ConnsAfterDeallocation(c) == conns \ {c}

----------------------------------------------------------------------------
\* SQL as the tools build it: a list of WHERE conditions joined by AND, and the
\* positional parameters bound to their %s placeholders, in order.

Lower(c) == CASE c = "A" -> "a" [] c = "B" -> "b" [] OTHER -> c

LowerStr(s) == [i \in 1 .. Len(s) |-> Lower(s[i])]

\* s LIKE p: % matches any run of characters, _ any one character, and a
\* backslash takes the next pattern character literally.
RECURSIVE Like(_, _)
Like(s, p) ==
    IF p = << >> THEN s = << >>
    ELSE IF Head(p) = "%" THEN
        Like(s, Tail(p)) \/ (s # << >> /\ Like(Tail(s), p))
    ELSE IF Head(p) = "_" THEN
        s # << >> /\ Like(Tail(s), Tail(p))
    ELSE IF Head(p) = "\\" /\ Len(p) >= 2 THEN
        s # << >> /\ Head(s) = p[2] /\ Like(Tail(s), Tail(Tail(p)))
    ELSE
        s # << >> /\ Head(s) = Head(p) /\ Like(Tail(s), Tail(p))

\* s ILIKE p: LIKE without regard to case.
ILike(s, p) == Like(LowerStr(s), LowerStr(p))

\* Whether row r satisfies the conditions, each %s taking the next parameter.
RECURSIVE Where(_, _, _)
Where(r, conditions, params) ==
    IF conditions = << >> THEN TRUE
    ELSE LET c == Head(conditions)
         IN  CASE c = "bucket_ts >= (NOW() - (%s || ' minutes')::interval)" ->
                    /\ r.bucket_ts >= Now - params[1]
                    /\ Where(r, Tail(conditions), Tail(params))
               [] c = "service_name = %s" ->
                    /\ r.service_name = params[1]
                    /\ Where(r, Tail(conditions), Tail(params))
               [] c = "level = %s" ->
                    /\ r.level = params[1]
                    /\ Where(r, Tail(conditions), Tail(params))
               [] c = "trace_id = %s" ->
                    /\ r.trace_id = params[1]
                    /\ Where(r, Tail(conditions), Tail(params))
               [] c = "(message ILIKE %s OR code ILIKE %s)" ->
                    /\ ILike(r.message, params[1]) \/ ILike(r.code, params[2])
                    /\ Where(r, Tail(conditions), Tail(Tail(params)))

\* SELECT * FROM table WHERE conditions.
Select(table, conditions, params) ==
    BagFilter(table, LAMBDA r : Where(r, conditions, params))

----------------------------------------------------------------------------
\* get_metrics_summary

ServiceNames == {<<"a">>, <<"b">>}

MetricRows ==
    [bucket_ts : Timestamps, service_name : ServiceNames,
     tps : {1, 3}, error_rate : {1}, latency_p95 : {4}]

\* service_name arguments: None, "", two services that may have rows, one that
\* never has any.
ServiceArgs == {None, Some(<< >>)} \cup {Some(s) : s \in ServiceNames \cup {<<"c">>}}

Minutes == -1 .. MaxTs

AllServices == <<"<", "a", "l", "l", ">">>

\* The note of the placeholder record (the source's text is Korean for this).
NoDataNote == "no data in the period"

\* Mutation: the service_name condition is never appended.
MetricsConditions_NoServiceFilter(service_name) ==
    <<"bucket_ts >= (NOW() - (%s || ' minutes')::interval)">>

\* The WHERE conditions of base_sql and params, as lines 70-85 build them.
MetricsConditions(service_name) ==
    <<"bucket_ts >= (NOW() - (%s || ' minutes')::interval)">>
        \o (IF Truthy(service_name) THEN <<"service_name = %s">> ELSE << >>)

MetricsParams(service_name, minutes) ==
    <<minutes>> \o (IF Truthy(service_name) THEN <<service_name.v>> ELSE << >>)

\* GROUP BY service_name with the four aggregates, ORDER BY service_name.
MetricsQuery(service_name, minutes) ==
    LET matched == Select(service_metrics, MetricsConditions(service_name),
                          MetricsParams(service_name, minutes))
        Group(s) == BagFilter(matched, LAMBDA r : r.service_name = s)
        Count(s) == BagCardinality(Group(s))
        Avg(s, f(_)) == Float(SumOver(Group(s), f), Count(s))
        Aggregate(s) ==
            [service_name |-> s,
             avg_tps |-> Avg(s, LAMBDA r : r.tps),
             max_tps |-> Float(MaxOver(DOMAIN Group(s), LAMBDA r : r.tps), 1),
             avg_error_rate |-> Avg(s, LAMBDA r : r.error_rate),
             avg_latency_p95 |-> Avg(s, LAMBDA r : r.latency_p95)]
    IN  OrderBy(SetToBag({Aggregate(r.service_name) : r \in DOMAIN matched}),
                LAMBDA x, y : StrLess(x.service_name, y.service_name))

MetricsRecord(row, minutes) ==
    [service_name |-> row.service_name,
     minutes |-> minutes,
     avg_tps |-> row.avg_tps,
     max_tps |-> row.max_tps,
     avg_error_rate |-> row.avg_error_rate,
     avg_latency_p95 |-> row.avg_latency_p95]

\* Mutation: no placeholder, the list comprehension alone (empty for no rows).
MetricsSummaryRecords_NoPlaceholder(rows, service_name, minutes) ==
    Project(rows, LAMBDA row : MetricsRecord(row, minutes))

\* Mutation: the placeholder always names the sentinel, never the filter.
MetricsSummaryRecords_AlwaysAll(rows, service_name, minutes) ==
    IF rows = << >> THEN
        << [service_name |-> AllServices,
            minutes |-> minutes,
            avg_tps |-> ZeroFloat,
            max_tps |-> ZeroFloat,
            avg_error_rate |-> ZeroFloat,
            avg_latency_p95 |-> ZeroFloat,
            note |-> NoDataNote] >>
    ELSE
        Project(rows, LAMBDA row : MetricsRecord(row, minutes))

\* What get_metrics_summary returns for the fetched rows (lines 97-121).
MetricsSummaryRecords(rows, service_name, minutes) ==
    IF rows = << >> THEN
        << [service_name |-> IF Truthy(service_name) THEN service_name.v ELSE AllServices,
            minutes |-> minutes,
            avg_tps |-> ZeroFloat,
            max_tps |-> ZeroFloat,
            avg_error_rate |-> ZeroFloat,
            avg_latency_p95 |-> ZeroFloat,
            note |-> NoDataNote] >>
    ELSE
        Project(rows, LAMBDA row : MetricsRecord(row, minutes))

\* The tool call get_metrics_summary(service_name, minutes).
MetricsCall(service_name, minutes) ==
    [service_name |-> service_name, minutes |-> minutes, op |-> "get_metrics_summary"]

\* A writer of the store adds a row to service_metrics.
InsertMetric(r) ==
    /\ BagCardinality(service_metrics) < MaxRows
    /\ service_metrics' = BagAdd(service_metrics, r)
    /\ UNCHANGED <<event_logs, hop_trace, conns, leaked, procs>>

----------------------------------------------------------------------------
\* search_event_logs

Levels == {<<"E">>, <<"W">>}

\* Rows that differ in their text: one instant, two services, two levels.
LogRowsText ==
    [service_name : ServiceNames, level : Levels, message : {<<"b">>, <<"_">>, <<"B", "a">>},
     code : {<<"A">>}, log_ts : {0}]

\* Rows that differ in their instant: one text, two services, one level.
LogRowsTimed ==
    [service_name : ServiceNames, level : {<<"E">>}, message : {<<"b">>},
     code : {<<"A">>}, log_ts : Timestamps]

KeywordChars == {"a", "b", "_", "%"}

Keywords == SeqsUpTo(KeywordChars, MaxKeyLen)

Limits == -1 .. MaxLimit

\* Mutation: a given service_name replaces the condition list instead of
\* extending it.
SearchStatement_FilterOverwrites(keyword, service_name, level, limit) ==
    IF Truthy(service_name) THEN
        [conditions |-> <<"service_name = %s">>,
         params |-> <<service_name.v, limit>>]
    ELSE
        [conditions |-> <<"(message ILIKE %s OR code ILIKE %s)">>,
         params |-> <<<<"%">> \o keyword \o <<"%">>, <<"%">> \o keyword \o <<"%">>, limit>>]

\* conditions and params as lines 142-161 build them; the last parameter is
\* the one bound to LIMIT %s.
SearchStatement(keyword, service_name, level, limit) ==
    [conditions |->
        <<"(message ILIKE %s OR code ILIKE %s)">>
            \o (IF Truthy(service_name) THEN <<"service_name = %s">> ELSE << >>)
            \o (IF Truthy(level) THEN <<"level = %s">> ELSE << >>),
     params |->
        <<<<"%">> \o keyword \o <<"%">>, <<"%">> \o keyword \o <<"%">>>>
            \o (IF Truthy(service_name) THEN <<service_name.v>> ELSE << >>)
            \o (IF Truthy(level) THEN <<level.v>> ELSE << >>)
            \o <<limit>>]

\* The rows of table that the statement's WHERE clause matches.
SearchMatched(table, stmt) == Select(table, stmt.conditions, stmt.params)

\* Mutation: ORDER BY log_ts ascending.
SearchQuery_Ascending(table, stmt) ==
    {Limit(s, stmt.params[Len(stmt.params)]) :
        s \in OrderBy(SearchMatched(table, stmt), LAMBDA x, y : x.log_ts < y.log_ts)}

\* ORDER BY log_ts DESC LIMIT %s: the row lists the store may answer with.
SearchQuery(table, stmt) ==
    {Limit(s, stmt.params[Len(stmt.params)]) :
        s \in OrderBy(SearchMatched(table, stmt), LAMBDA x, y : x.log_ts > y.log_ts)}


\* The store rejects a negative LIMIT.
SearchFails(stmt) == stmt.params[Len(stmt.params)] < 0

LogRecord(r) ==
    [service_name |-> r.service_name,
     level |-> r.level,
     message |-> r.message,
     code |-> r.code,
     timestamp |-> isoformat(r.log_ts)]

\* The tool call search_event_logs(keyword, service_name, level, limit).
SearchCall(keyword, service_name, level, limit) ==
    [service_name |-> service_name, level |-> level, op |-> "search_event_logs",
     keyword |-> keyword, limit |-> limit]

\* A writer of the store appends a row to event_logs.
InsertLog(r) ==
    /\ BagCardinality(event_logs) < MaxRows
    /\ event_logs' = BagAdd(event_logs, r)
    /\ UNCHANGED <<service_metrics, hop_trace, conns, leaked, procs>>

----------------------------------------------------------------------------
\* get_hop_trace and get_all_hop_traces

TraceIds == {<<"a">>, <<"b">>}

\* The table has no key the tools rely on: two rows may share trace_id and
\* hop_index, and a row may be stored twice.
HopRows ==
    [trace_id : TraceIds, hop_index : {0, 1}, node_name : {<<"a">>},
     hop_ts : Timestamps, latency_ms : {5}, status : {<<"O", "K">>}]

\* Rows that differ in their trace and hop index only: one instant.
HopRowsIndexed == {r \in HopRows : r.hop_ts = 0}

\* trace_id arguments: "", two traces that may have rows, one that never has.
TraceArgs == {<< >>, <<"c">>} \cup TraceIds

HopRecord(r) ==
    [trace_id |-> r.trace_id,
     timestamp |-> isoformat(r.hop_ts),
     hop_index |-> r.hop_index,
     node_name |-> r.node_name,
     latency_ms |-> Float(r.latency_ms, 1),
     status |-> r.status]

\* Mutation: the WHERE trace_id = %s clause is lost.
HopTraceQuery_AllTraces(trace_id) ==
    OrderBy(hop_trace, LAMBDA x, y : x.hop_index < y.hop_index)

\* WHERE trace_id = %s ORDER BY hop_index ASC (lines 188-196).
HopTraceQuery(trace_id) ==
    OrderBy(Select(hop_trace, <<"trace_id = %s">>, <<trace_id>>),
            LAMBDA x, y : x.hop_index < y.hop_index)

\* ORDER BY hop_ts DESC, trace_id, hop_index ASC.
HopBefore(x, y) ==
    \/ x.hop_ts > y.hop_ts
    \/ /\ x.hop_ts = y.hop_ts
       /\ \/ StrLess(x.trace_id, y.trace_id)
          \/ x.trace_id = y.trace_id /\ x.hop_index < y.hop_index

\* Mutation: ORDER BY hop_ts DESC alone, without the tie-break columns.
AllHopTracesQuery_NoTieBreak(limit) ==
    {Limit(s, limit) : s \in OrderBy(hop_trace, LAMBDA x, y : x.hop_ts > y.hop_ts)}

\* ORDER BY hop_ts DESC, trace_id, hop_index ASC LIMIT %s (lines 222-230).
AllHopTracesQuery(limit) ==
    {Limit(s, limit) : s \in OrderBy(hop_trace, HopBefore)}

\* The tool calls get_hop_trace(trace_id) and get_all_hop_traces(limit).
HopTraceCall(trace_id) == [trace_id |-> trace_id, op |-> "get_hop_trace"]

AllHopTracesCall(limit) == [op |-> "get_all_hop_traces", limit |-> limit]

\* A writer of the store adds a row to hop_trace.
InsertHop(r) ==
    /\ BagCardinality(hop_trace) < MaxHopRows
    /\ hop_trace' = BagAdd(hop_trace, r)
    /\ UNCHANGED <<service_metrics, event_logs, conns, leaked, procs>>

----------------------------------------------------------------------------
\* The tools statement by statement. Each worker p of the runtime runs one
\* call at a time:
\*   conn = get_conn(); cur = conn.cursor() / cur.execute(...) /
\*   rows = cur.fetchall() / cur.close(); conn.close() / return [...]
\* Between any two of these steps other calls and the writers of the store may
\* take steps of their own. Statements that touch only the call's own objects
\* share a step with the statement next to them.

Procs == 1 .. NProcs

IdleProc == [pc |-> "idle"]

\* The table the statement of call c reads.
TableOf(c) ==
    CASE c.op = "get_metrics_summary" -> service_metrics
      [] c.op = "search_event_logs" -> event_logs
      [] c.op = "get_hop_trace" -> hop_trace
      [] c.op = "get_all_hop_traces" -> hop_trace

\* Whether the store rejects the statement of call c (a negative LIMIT).
StatementFails(c) ==
    CASE c.op = "search_event_logs" ->
            SearchFails(SearchStatement(c.keyword, c.service_name, c.level, c.limit))
      [] c.op = "get_all_hop_traces" -> c.limit < 0
      [] OTHER -> FALSE

\* The row lists the store may answer call c with.
StatementRows(c) ==
    CASE c.op = "get_metrics_summary" -> MetricsQuery(c.service_name, c.minutes)
      [] c.op = "search_event_logs" ->
            SearchQuery(event_logs,
                        SearchStatement(c.keyword, c.service_name, c.level, c.limit))
      [] c.op = "get_hop_trace" -> HopTraceQuery(c.trace_id)
      [] c.op = "get_all_hop_traces" -> AllHopTracesQuery(c.limit)

\* The records call c returns for the rows it fetched.
ReturnValue(c, rows) ==
    CASE c.op = "get_metrics_summary" ->
            MetricsSummaryRecords(rows, c.service_name, c.minutes)
      [] c.op = "search_event_logs" -> Project(rows, LogRecord)
      [] c.op = "get_hop_trace" -> Project(rows, HopRecord)
      [] c.op = "get_all_hop_traces" -> Project(rows, HopRecord)

\* The call raises out of the tool with its connection c still open.
Raise(p, c) ==
    /\ procs' = [procs EXCEPT ![p].pc = "raised", ![p].seen = EmptyBag,
                              ![p].rows = << >>]
    /\ conns' = ConnsAfterRaise(c)
    /\ leaked' = leaked \cup {c}

\* conn = get_conn(); cur = conn.cursor(): the first two statements of every
\* tool. Creating the cursor touches nothing but the new connection object.
\* fault = "connect": the store is unreachable or refuses the connection.
Invoke(p, c, fault) ==
    /\ procs[p].pc = "idle"
    /\ IF fault = "connect" \/ ~CanConnect THEN
            /\ procs' = [procs EXCEPT ![p] =
                    [rows |-> << >>, pc |-> "raised", seen |-> EmptyBag, call |-> c,
                     conn |-> 0, conn_closed |-> FALSE, cur |-> "none",
                     records |-> << >>]]
            /\ UNCHANGED <<conns, leaked>>
       ELSE
            /\ procs' = [procs EXCEPT ![p] =
                    [rows |-> << >>, pc |-> "cursor", seen |-> EmptyBag,
                     call |-> c, conn |-> get_conn, conn_closed |-> FALSE,
                     cur |-> "open", records |-> << >>]]
            /\ conns' = conns \cup {get_conn}
            /\ UNCHANGED leaked
    /\ UNCHANGED store

\* cur.execute(sql, params): the store runs the statement on the table as it is
\* at this moment (kept in seen), or the call raises.
Execute(p, fault) ==
    /\ procs[p].pc = "cursor"
    /\ IF fault = "execute" \/ StatementFails(procs[p].call) THEN
            Raise(p, procs[p].conn)
       ELSE
            /\ \E rows \in StatementRows(procs[p].call) :
                    procs' = [procs EXCEPT ![p].pc = "executed",
                                           ![p].seen = TableOf(procs[p].call),
                                           ![p].rows = rows]
            /\ UNCHANGED <<conns, leaked>>
    /\ UNCHANGED store

\* rows = cur.fetchall(), or the fetch raises.
FetchAll(p, fault) ==
    /\ procs[p].pc = "executed"
    /\ IF fault = "execute" THEN
            Raise(p, procs[p].conn)
       ELSE
            /\ procs' = [procs EXCEPT ![p].pc = "fetched"]
            /\ UNCHANGED <<conns, leaked>>
    /\ UNCHANGED store

\* cur.close(); conn.close()
Close(p) ==
    /\ procs[p].pc = "fetched"
    /\ procs' = [procs EXCEPT ![p].pc = "closed", ![p].cur = "closed",
                              ![p].conn_closed = TRUE]
    /\ conns' = conns \ {procs[p].conn}
    /\ UNCHANGED <<store, leaked>>

\* return [...]
Return(p) ==
    /\ procs[p].pc = "closed"
    /\ procs' = [procs EXCEPT ![p].pc = "returned",
                              ![p].records = ReturnValue(procs[p].call, procs[p].rows)]
    /\ UNCHANGED <<store, conns, leaked>>

\* The runtime hands the outcome, the records or the error, to the host; the
\* worker takes the next call. No statement of the program runs here. The
\* connection a call that raised left open either stays open (the error is
\* kept, or the runtime does not reclaim at once) or is closed on the spot
\* (dropped: the error is let go of and the connection object deallocated).
Respond(p, dropped) ==
    /\ procs[p].pc \in {"returned", "raised"}
    /\ procs' = [procs EXCEPT ![p] = IdleProc]
    /\ IF dropped /\ procs[p].pc = "raised" /\ procs[p].conn \in leaked THEN
            /\ conns' = ConnsAfterDeallocation(procs[p].conn)
            /\ leaked' = leaked \ {procs[p].conn}
       ELSE
            UNCHANGED <<conns, leaked>>
    /\ UNCHANGED store

\* The runtime deallocates, some time after the answer, the object of a
\* connection that a call that raised left open.
Deallocate(c) ==
    /\ c \in leaked
    /\ \A p \in Procs : ~(procs[p].pc = "raised" /\ procs[p].conn = c)
    /\ conns' = ConnsAfterDeallocation(c)
    /\ leaked' = leaked \ {c}
    /\ UNCHANGED <<store, procs>>

\* The statements of the call that worker p runs, after its first.
Step(p) ==
    \/ \E fault \in {"none", "execute"} : Execute(p, fault)
    \/ \E fault \in {"none", "execute"} : FetchAll(p, fault)
    \/ Close(p)
    \/ Return(p)
    \/ \E dropped \in BOOLEAN : Respond(p, dropped)

----------------------------------------------------------------------------
\* The host and the runtime.

Idle(p) == procs[p].pc = "idle"

\* The worker the runtime gives the next call to: the first idle one.
FirstIdle == CHOOSE p \in Procs : Idle(p) /\ \A q \in 1 .. p - 1 : ~Idle(q)

\* The host issues call c while other calls may be running.
Dispatch(c, fault) ==
    /\ \E p \in Procs : Idle(p)
    /\ Invoke(FirstIdle, c, fault)

\* The host issues call c once it has the response to the one before.
DispatchNext(c, fault) ==
    /\ \A p \in Procs : Idle(p)
    /\ Invoke(FirstIdle, c, fault)

\* The calls the host issues in the concurrent runs: each tool, and
\* get_metrics_summary both with matching rows and without.
ConcurrentCalls ==
    {MetricsCall(sn, MaxTs) : sn \in {None, Some(<<"c">>)}}
    \cup {SearchCall(<< >>, None, None, MaxLimit)}
    \cup {HopTraceCall(<<"a">>)}
    \cup {AllHopTracesCall(MaxLimit)}

Init ==
    /\ service_metrics = EmptyBag
    /\ event_logs = EmptyBag
    /\ hop_trace = EmptyBag
    /\ conns = {}
    /\ leaked = {}
    /\ procs = [p \in Procs |-> IdleProc]

\* A store that holds one row per table, for the concurrent runs.
InitConcurrent ==
    /\ service_metrics = SetToBag({[bucket_ts |-> MaxTs, service_name |-> <<"a">>,
                                    tps |-> 1, error_rate |-> 0, latency_p95 |-> 4]})
    /\ event_logs = SetToBag({[service_name |-> <<"a">>, level |-> <<"E">>,
                               message |-> <<"b">>, code |-> <<"A">>, log_ts |-> MaxTs]})
    /\ hop_trace = SetToBag({[trace_id |-> <<"a">>, hop_index |-> 0, node_name |-> <<"a">>,
                              hop_ts |-> MaxTs, latency_ms |-> 5, status |-> <<"O", "K">>]})
    /\ conns = {}
    /\ leaked = {}
    /\ procs = [p \in Procs |-> IdleProc]

\* Calls of every tool, as many at once as there are workers, on a fixed store.
NextConcurrent ==
    \/ \E c \in ConcurrentCalls, fault \in {"none", "connect"} : Dispatch(c, fault)
    \/ \E p \in Procs : Step(p)
    \/ \E c \in leaked : Deallocate(c)

SpecConcurrent == InitConcurrent /\ [][NextConcurrent]_vars

\* Calls of get_metrics_summary, one after another, while writers add rows.
NextMetrics ==
    \/ \E r \in MetricRows : InsertMetric(r)
    \/ \E service_name \in ServiceArgs, minutes \in Minutes, fault \in {"none", "connect"} :
            DispatchNext(MetricsCall(service_name, minutes), fault)
    \/ \E p \in Procs : Step(p)
    \/ \E c \in leaked : Deallocate(c)

SpecMetrics == Init /\ [][NextMetrics]_vars

\* Searches over rows of varied text, under a limit that never truncates.
NextSearch ==
    \/ \E r \in LogRowsText : InsertLog(r)
    \/ \E keyword \in Keywords, service_name \in {None, Some(<<"a">>)},
          level \in {None, Some(<<"E">>)}, fault \in {"none", "connect"} :
            DispatchNext(SearchCall(keyword, service_name, level, MaxRows + 1), fault)
    \/ \E p \in Procs : Step(p)
    \/ \E c \in leaked : Deallocate(c)

SpecSearch == Init /\ [][NextSearch]_vars

\* Searches over rows of varied instants, under every limit.
NextRecent ==
    \/ \E r \in LogRowsTimed : InsertLog(r)
    \/ \E keyword \in {<< >>, <<"b">>, <<"c">>}, service_name \in ServiceArgs,
          limit \in Limits, fault \in {"none", "connect"} :
            DispatchNext(SearchCall(keyword, service_name, None, limit), fault)
    \/ \E p \in Procs : Step(p)
    \/ \E c \in leaked : Deallocate(c)

SpecRecent == Init /\ [][NextRecent]_vars

\* Calls of get_hop_trace over traces whose hops differ in trace and index.
NextHops ==
    \/ \E r \in HopRowsIndexed : InsertHop(r)
    \/ \E trace_id \in TraceArgs, fault \in {"none", "connect"} :
            DispatchNext(HopTraceCall(trace_id), fault)
    \/ \E p \in Procs : Step(p)
    \/ \E c \in leaked : Deallocate(c)

SpecHops == Init /\ [][NextHops]_vars

\* Calls of get_all_hop_traces over hops of varied instants, under every limit,
\* on a table of at most MaxRows rows.
NextAllHops ==
    \/ \E r \in HopRows : BagCardinality(hop_trace) < MaxRows /\ InsertHop(r)
    \/ \E limit \in Limits, fault \in {"none", "connect"} :
            DispatchNext(AllHopTracesCall(limit), fault)
    \/ \E p \in Procs : Step(p)
    \/ \E c \in leaked : Deallocate(c)

SpecAllHops == Init /\ [][NextAllHops]_vars

----------------------------------------------------------------------------
\* Properties of get_metrics_summary (checked under SpecMetrics). A returned
\* call is compared with the table as its statement saw it.

MetricsReturned(p) ==
    procs[p].pc = "returned" /\ procs[p].call.op = "get_metrics_summary"

\* The rows the statement of worker p's call saw inside the call's window that
\* pass the filter the call applied (a truthy service_name), stated from the
\* table alone.
MetricsInWindow(p) ==
    {r \in DOMAIN procs[p].seen :
        /\ r.bucket_ts >= Now - procs[p].call.minutes
        /\ Truthy(procs[p].call.service_name) =>
                r.service_name = procs[p].call.service_name.v}

IsPlaceholder(rec) == "note" \in DOMAIN rec

\* C1: get_metrics_summary never returns an empty sequence; when the windowed
\* query matches no row the result is exactly one record with the four metrics
\* 0.0 and a non-empty note, named "<all>" when no service filter was given.
C1_NeverEmpty ==
    \A p \in Procs :
        MetricsReturned(p) =>
            /\ Len(procs[p].records) >= 1
            /\ MetricsInWindow(p) = {} =>
                /\ Len(procs[p].records) = 1
                /\ LET rec == procs[p].records[1]
                   IN  /\ rec.avg_tps = ZeroFloat
                       /\ rec.max_tps = ZeroFloat
                       /\ rec.avg_error_rate = ZeroFloat
                       /\ rec.avg_latency_p95 = ZeroFloat
                       /\ IsPlaceholder(rec)
                       /\ rec.note # ""
                       /\ procs[p].call.service_name = None =>
                                rec.service_name = AllServices

\* C1 witness: rows exist, none in the window, no filter, placeholder returned.
C1_Witness ==
    \E p \in Procs :
        /\ MetricsReturned(p)
        /\ procs[p].seen # EmptyBag
        /\ MetricsInWindow(p) = {}
        /\ procs[p].call.service_name = None
        /\ Len(procs[p].records) = 1

\* The statement call c executed names service_name = S with S bound to it.
RestrictedTo(c, S) ==
    LET conditions == MetricsConditions(c.service_name)
        params == MetricsParams(c.service_name, c.minutes)
    IN  /\ Len(conditions) = 2
        /\ conditions[2] = "service_name = %s"
        /\ Len(params) = 2
        /\ params[2] = S

\* C2 as claimed: for every string S given as service_name, the empty string
\* included, the synthetic record of a zero-row window is named S and the query
\* was restricted to service_name = S.
C2_EveryString ==
    \A p \in Procs :
        (/\ MetricsReturned(p)
         /\ procs[p].call.service_name.some
         /\ IsPlaceholder(procs[p].records[1])) =>
            /\ procs[p].records[1].service_name = procs[p].call.service_name.v
            /\ RestrictedTo(procs[p].call, procs[p].call.service_name.v)

\* C2 amended: the same for every non-empty string S; for the empty string the
\* call behaves as if no filter were given.
C2_NonEmptyString ==
    \A p \in Procs :
        /\ (/\ MetricsReturned(p)
            /\ Truthy(procs[p].call.service_name)
            /\ IsPlaceholder(procs[p].records[1])) =>
                /\ procs[p].records[1].service_name = procs[p].call.service_name.v
                /\ RestrictedTo(procs[p].call, procs[p].call.service_name.v)
        /\ (/\ MetricsReturned(p)
            /\ procs[p].call.service_name = Some(<< >>)
            /\ IsPlaceholder(procs[p].records[1])) =>
                /\ procs[p].records[1].service_name = AllServices
                /\ ~RestrictedTo(procs[p].call, << >>)

\* C2 witness: a filtered call whose service has rows, none of them in the
\* window, answered with the placeholder.
C2_Witness ==
    \E p \in Procs :
        /\ MetricsReturned(p)
        /\ Truthy(procs[p].call.service_name)
        /\ \E r \in DOMAIN procs[p].seen : r.service_name = procs[p].call.service_name.v
        /\ IsPlaceholder(procs[p].records[1])

\* C9: when the query matches a row, the result holds one record per distinct
\* service_name with a row in the window (one record, of the requested service,
\* under a filter), ascending by service_name, each with the call's minutes and
\* without a note.
C9_GroupedSorted ==
    \A p \in Procs :
        (MetricsReturned(p) /\ MetricsInWindow(p) # {}) =>
            LET recs == procs[p].records
                c == procs[p].call
                services == {r.service_name : r \in MetricsInWindow(p)}
            IN  /\ Len(recs) = Cardinality(services)
                /\ {recs[i].service_name : i \in 1 .. Len(recs)} = services
                /\ \A i \in 1 .. Len(recs) - 1 :
                        StrLess(recs[i].service_name, recs[i + 1].service_name)
                /\ \A i \in 1 .. Len(recs) :
                        /\ recs[i].minutes = c.minutes
                        /\ ~IsPlaceholder(recs[i])
                /\ Truthy(c.service_name) =>
                        /\ Len(recs) = 1
                        /\ recs[1].service_name = c.service_name.v

\* C9 witness: two services have rows in the window, one of them is asked for,
\* and one record comes back.
C9_Witness ==
    \E p \in Procs :
        /\ MetricsReturned(p)
        /\ Truthy(procs[p].call.service_name)
        /\ Cardinality({r.service_name :
                r \in {x \in DOMAIN procs[p].seen :
                            x.bucket_ts >= Now - procs[p].call.minutes}}) = 2
        /\ Len(procs[p].records) = 1
        /\ ~IsPlaceholder(procs[p].records[1])

----------------------------------------------------------------------------
\* Properties of search_event_logs (SpecSearch, SpecRecent).

SearchReturned(p) ==
    procs[p].pc = "returned" /\ procs[p].call.op = "search_event_logs"

Range(s) == {s[i] : i \in 1 .. Len(s)}

\* k occurs in s as a run of consecutive characters, letters compared without
\* regard to case.
ContainsNoCase(s, k) ==
    \E i \in 0 .. Len(s) - Len(k) :
        LowerStr(SubSeq(s, i + 1, i + Len(k))) = LowerStr(k)

\* C4: every record search_event_logs(K, ...) returns has K in its message or
\* its code as a literal substring, case-insensitively, for every keyword K,
\* those with '%' and '_' included, and equals the service_name and level
\* filters that were given.
C4_LiteralSubstring ==
    \A p \in Procs :
        SearchReturned(p) =>
            \A i \in 1 .. Len(procs[p].records) :
                LET rec == procs[p].records[i]
                    c == procs[p].call
                IN  /\ ContainsNoCase(rec.message, c.keyword)
                        \/ ContainsNoCase(rec.code, c.keyword)
                    /\ Truthy(c.service_name) => rec.service_name = c.service_name.v
                    /\ Truthy(c.level) => rec.level = c.level.v

\* The statement of call c without its service_name filter.
UnfilteredStatement(c) == SearchStatement(c.keyword, None, c.level, c.limit)

\* C3 as claimed: the records of search_event_logs(K, service_name=S, limit=L)
\* are among the records search_event_logs(K, limit=L) returns on the same
\* table (in at least one of the orders the store may choose among ties).
C3_SubsetOfUnfiltered ==
    \A p \in Procs :
        (SearchReturned(p) /\ procs[p].call.level = None) =>
            \E rows \in SearchQuery(procs[p].seen, UnfilteredStatement(procs[p].call)) :
                Range(procs[p].records) \subseteq Range(Project(rows, LogRecord))

\* C3 amended: the records of the filtered call are among the rows the
\* unfiltered statement matches; they are among the records of the unfiltered
\* call with the same limit whenever that call is not truncated, that is
\* whenever at most L rows match K.
C3_SubsetUnlessTruncated ==
    \A p \in Procs :
        (SearchReturned(p) /\ procs[p].call.level = None) =>
            LET unfiltered == UnfilteredStatement(procs[p].call)
                matched == SearchMatched(procs[p].seen, unfiltered)
            IN  /\ Range(procs[p].records) \subseteq {LogRecord(r) : r \in DOMAIN matched}
                /\ BagCardinality(matched) <= procs[p].call.limit =>
                        \A rows \in SearchQuery(procs[p].seen, unfiltered) :
                            Range(procs[p].records) \subseteq Range(Project(rows, LogRecord))

\* C3 witness: a filter that drops a matching row of another service and keeps
\* one of its own, the unfiltered call not truncated.
C3_Witness ==
    \E p \in Procs :
        /\ SearchReturned(p)
        /\ Truthy(procs[p].call.service_name)
        /\ procs[p].call.level = None
        /\ Len(procs[p].records) >= 1
        /\ LET matched == SearchMatched(procs[p].seen, UnfilteredStatement(procs[p].call))
           IN  /\ BagCardinality(matched) <= procs[p].call.limit
               /\ BagCardinality(matched) > Len(procs[p].records)

\* How often record rec occurs in the list recs.
Returned_Count(recs, rec) == Cardinality({i \in 1 .. Len(recs) : recs[i] = rec})

\* The rows the statement of worker p's search matched.
MatchedBy(p) ==
    SearchMatched(procs[p].seen,
                  SearchStatement(procs[p].call.keyword, procs[p].call.service_name,
                                  procs[p].call.level, procs[p].call.limit))

\* C5: search_event_logs returns at most limit records, most recent first, and
\* they are the limit most recent matching rows: every record is a matching
\* row, as many as the limit allows, and no matching row left out is newer than
\* one returned.
C5_MostRecentFirst ==
    \A p \in Procs :
        SearchReturned(p) =>
            LET recs == procs[p].records
                limit == procs[p].call.limit
                matched == MatchedBy(p)
                total == BagCardinality(matched)
            IN  /\ Len(recs) <= limit
                /\ Len(recs) = IF total < limit THEN total ELSE limit
                /\ \A i \in 1 .. Len(recs) - 1 :
                        ~StrLess(recs[i].timestamp, recs[i + 1].timestamp)
                /\ \A rec \in Range(recs) :
                        \E r \in DOMAIN matched :
                            LogRecord(r) = rec /\ Returned_Count(recs, rec) <= matched[r]
                /\ \A r \in DOMAIN matched :
                        Returned_Count(recs, LogRecord(r)) < matched[r] =>
                            \A rec \in Range(recs) :
                                ~StrLess(rec.timestamp, isoformat(r.log_ts))

\* C5 witness: more rows match than the limit admits, at different instants,
\* and the limit is positive.
C5_Witness ==
    \E p \in Procs :
        /\ SearchReturned(p)
        /\ procs[p].call.limit >= 1
        /\ Len(procs[p].records) = procs[p].call.limit
        /\ \E r \in DOMAIN MatchedBy(p) :
                /\ Returned_Count(procs[p].records, LogRecord(r)) = 0
                /\ StrLess(isoformat(r.log_ts), procs[p].records[1].timestamp)

----------------------------------------------------------------------------
\* Properties of get_hop_trace (SpecHops) and get_all_hop_traces (SpecAllHops).

HopTraceReturned(p) ==
    procs[p].pc = "returned" /\ procs[p].call.op = "get_hop_trace"

\* The rows of trace T in table, stated from the table alone.
RowsOfTrace(table, T) == BagFilter(table, LAMBDA r : r.trace_id = T)

\* The list recs holds each row of bag B as often as B holds it, and nothing
\* else.
ReturnsExactly(recs, B) ==
    /\ Len(recs) = BagCardinality(B)
    /\ \A r \in DOMAIN B : Returned_Count(recs, HopRecord(r)) = B[r]

\* C6 as claimed: get_hop_trace(T) returns exactly the rows of trace T, sorted
\* strictly ascending by hop_index, and nothing at all for an unknown T.
C6_StrictlyAscending ==
    \A p \in Procs :
        HopTraceReturned(p) =>
            LET recs == procs[p].records
            IN  /\ ReturnsExactly(recs, RowsOfTrace(procs[p].seen, procs[p].call.trace_id))
                /\ \A i \in 1 .. Len(recs) - 1 :
                        recs[i].hop_index < recs[i + 1].hop_index

\* C6 amended: get_hop_trace(T) returns exactly the rows of trace T, sorted
\* ascending by hop_index (rows of equal hop_index side by side), strictly
\* ascending when no two rows of T share a hop_index, and nothing at all for an
\* unknown T.
C6_Ascending ==
    \A p \in Procs :
        HopTraceReturned(p) =>
            LET recs == procs[p].records
                ofTrace == RowsOfTrace(procs[p].seen, procs[p].call.trace_id)
            IN  /\ ReturnsExactly(recs, ofTrace)
                /\ \A i \in 1 .. Len(recs) - 1 : recs[i].hop_index <= recs[i + 1].hop_index
                /\ (\A r \in DOMAIN ofTrace :
                        /\ ofTrace[r] = 1
                        /\ \A q \in DOMAIN ofTrace : q # r => q.hop_index # r.hop_index)
                    => \A i \in 1 .. Len(recs) - 1 :
                            recs[i].hop_index < recs[i + 1].hop_index
                /\ ofTrace = EmptyBag => recs = << >>

\* C6 witness: two hops of the trace with different indexes come back, a row
\* of another trace stays out.
C6_Witness ==
    \E p \in Procs :
        /\ HopTraceReturned(p)
        /\ Len(procs[p].records) = 2
        /\ procs[p].records[1].hop_index < procs[p].records[2].hop_index
        /\ BagCardinality(procs[p].seen) > 2

AllHopsReturned(p) ==
    procs[p].pc = "returned" /\ procs[p].call.op = "get_all_hop_traces"

\* C7: get_all_hop_traces(N) returns at most N records, by timestamp descending,
\* then trace_id ascending, then hop_index ascending; they are the first N rows
\* of that order, so a trace may appear only in part.
C7_FirstNOfOrder ==
    \A p \in Procs :
        AllHopsReturned(p) =>
            LET recs == procs[p].records
                limit == procs[p].call.limit
                table == procs[p].seen
                total == BagCardinality(table)
                RecBefore(x, y) ==
                    \/ StrLess(y.timestamp, x.timestamp)
                    \/ /\ x.timestamp = y.timestamp
                       /\ \/ StrLess(x.trace_id, y.trace_id)
                          \/ x.trace_id = y.trace_id /\ x.hop_index < y.hop_index
            IN  /\ Len(recs) <= limit
                /\ Len(recs) = IF total < limit THEN total ELSE limit
                /\ \A i \in 1 .. Len(recs) - 1 : ~RecBefore(recs[i + 1], recs[i])
                /\ \A rec \in Range(recs) :
                        \E r \in DOMAIN table :
                            HopRecord(r) = rec /\ Returned_Count(recs, rec) <= table[r]
                /\ \A r \in DOMAIN table :
                        Returned_Count(recs, HopRecord(r)) < table[r] =>
                            \A rec \in Range(recs) : ~RecBefore(HopRecord(r), rec)

\* C7 witness: the limit cuts a trace in two: one of its hops is returned and
\* an older hop of the same trace is not.
C7_Witness ==
    \E p \in Procs :
        /\ AllHopsReturned(p)
        /\ Len(procs[p].records) = procs[p].call.limit
        /\ \E r \in DOMAIN procs[p].seen :
                /\ Returned_Count(procs[p].records, HopRecord(r)) = 0
                /\ \E rec \in Range(procs[p].records) :
                        /\ rec.trace_id = r.trace_id
                        /\ StrLess(isoformat(r.hop_ts), rec.timestamp)

----------------------------------------------------------------------------
\* Properties of the connection handling (SpecConcurrent).

\* Worker p is between get_conn() and conn.close().
Holding(p) ==
    procs[p].pc \in {"cursor", "executed", "fetched"}

Holders == {p \in Procs : Holding(p)}

\* C8: under every interleaving each call has a connection of its own, and a
\* call that returned has closed its cursor and its connection: the open
\* connections are those of the calls in flight, one each, and those left by
\* calls that raised; with no call in flight and no connection left by a
\* failed call (so, in particular, when no call has failed), none is open.
C8_OwnConnectionClosed ==
    /\ \A p \in Holders :
            /\ procs[p].conn \in conns \ leaked
            /\ \A q \in Holders : q # p => procs[q].conn # procs[p].conn
    /\ conns = {procs[p].conn : p \in Holders} \cup leaked
    /\ \A p \in Procs :
            procs[p].pc = "returned" =>
                /\ procs[p].cur = "closed"
                /\ procs[p].conn_closed
    /\ ((\A p \in Procs : Idle(p)) /\ leaked = {}) => conns = {}

\* C8 witness: one call has returned records while another, on a connection of
\* its own, is still running, and no failed call has left a connection.
C8_Witness ==
    \E p, q \in Procs :
        /\ procs[p].pc = "returned"
        /\ procs[p].records # << >>
        /\ Holding(q)
        /\ procs[q].conn \in conns
        /\ leaked = {}

\* Worker p's call raised after it had opened a connection, and its error has
\* not been handed to the host yet.
ErrorPending(p) == procs[p].pc = "raised" /\ procs[p].conn # 0

\* What C10 says of the step in which execute or fetchall raises: the call ends
\* with the error and no record, cur.close() and conn.close() are skipped, and
\* the call is not run again.
RaisesWithoutClosing ==
    \A p \in Procs :
        /\ (procs[p].pc \in {"cursor", "executed"} /\ procs'[p].pc = "raised") =>
                /\ procs'[p].records = << >>
                /\ procs'[p].cur = "open"
                /\ ~procs'[p].conn_closed
                /\ procs[p].conn \in conns'
                /\ procs[p].conn \in leaked'
        /\ procs[p].pc = "raised" => procs'[p].pc \in {"raised", "idle"}

\* C10 as claimed: when execute or fetchall raises, the call ends with the
\* error and no record, is not retried, and skips cur.close() and
\* conn.close(): its connection stays open in every later state.
C10_StaysOpenForever ==
    [][ /\ RaisesWithoutClosing
        /\ \A c \in leaked : c \in conns /\ c \in conns' ]_vars

\* C10 amended: the same, but the connection is sure to stay open only while
\* the call's error is pending; after that it stays open unless the runtime
\* deallocates the connection object: it is open in every state in which it
\* is still left over, and it goes away only in a step in which no call runs
\* a statement (the answer of the call that raised, or a later deallocation).
C10_ClosedOnlyByDeallocation ==
    [][ /\ RaisesWithoutClosing
        /\ \A p \in Procs :
                ErrorPending(p) =>
                    /\ procs[p].conn \in conns \cap leaked
                    /\ ErrorPending(p)' => procs[p].conn \in conns' \cap leaked'
        /\ \A c \in leaked :
                /\ c \in conns
                /\ c \notin conns' =>
                        \A p \in Procs :
                            \/ procs'[p] = procs[p]
                            \/ ErrorPending(p) /\ procs[p].conn = c /\ Idle(p)' ]_vars

\* C10 witness: a call raised after opening its connection, the host has its
\* error, every worker is idle again, and the connection is still open.
C10_Witness ==
    /\ \A p \in Procs : Idle(p)
    /\ leaked # {}
    /\ leaked \subseteq conns

====
